---- MODULE Spec2Model ----
(***************************************************************************)
(* The Tokenizer of src/src/app.tsx: a cursor over an input string with    *)
(* an ordered list of custom tokens (field matchers).  The input is a      *)
(* sequence of one-character strings; pos is the 0-based offset of the     *)
(* next unconsumed character, so input[pos] of the source is input[pos+1]  *)
(* here.  setInput is called reset, tokenizeIt nextToken and tokenize      *)
(* tokenizeAll in the specification.                                       *)
(***************************************************************************)
EXTENDS Integers, Sequences, FiniteSets

VARIABLES
  input,         \* Tokenizer.input
  pos,           \* Tokenizer.pos
  customTokens,  \* Tokenizer.customTokens: the character class of each matcher, in order
  lastCall,      \* the last public call: "new", "reset", "nextToken" or "tokenizeAll"
  result,        \* what the last call returned: [error, tokens]
  prevPos,       \* pos when the last call started
  trace,         \* the tokenizeIt runs the last call made, in order
  scanned,       \* since the last reset: emitted token texts and skipped runs, concatenated
  strings,       \* since the last reset: the number of String tokens emitted, saturating at 1
  eofs,          \* since the last reset: nextToken calls that returned EOF, saturating at 2
  fails,         \* since the last reset: calls that raised InvalidToken, saturating at 2
  appTokens,     \* App: the tokens state, each token rendered as a text
  appError,      \* App: the error state, a message or Null
  prevError      \* App: the error state before the last change of the input was handled

vars == <<input, pos, customTokens, lastCall, result, prevPos, trace, scanned, strings, eofs,
          fails, appTokens, appError, prevError>>

appVars == <<appTokens, appError, prevError>>

----------------------------------------------------------------------------
(* Bounds and the input alphabet *)

MaxLen == 4

SP == " "
QUOTE == "\""
TAB == "\t"
DOT == "."

\* One character of every kind the scanner tells apart: the skipped space, the
\* quote, a digit, the decimal point, two letters and a whitespace that is not
\* a space.
Chars == {SP, QUOTE, "1", DOT, "a", "b", TAB}

\* /\d/
Digits == {"0", "1", "2", "3", "4", "5", "6", "7", "8", "9"}

\* The letters of the documented queries that are not ASCII: U+00E7, U+00E9
\* and U+00E3, each one character of the input.
CCEDILLA == "c-cedilla"
EACUTE == "e-acute"
ATILDE == "a-tilde"

\* The first query of the tokenization example.
Query1 ==
  << "p", "r", "o", "d", "u", "t", "o", SP, "e", "m", SP, "1", "0", "2", "2",
     "3", "4", ",", SP, "1", "2", "2", "3", "3" >>

\* The second query of the tokenization example.
Query2 ==
  << "p", "r", "o", "d", "u", "t", "o", SP, EACUTE, SP, "1", "0", "2", "2",
     "3", "4", SP, "e", SP, "c", "a", "t", "e", "g", "o", "r", "i", "a", SP,
     "e", "m", SP, "1", "2", "3", "4", "5", ",", SP, "1", "2", "3", "4", ",",
     SP, "1", "2", "3", "3", SP, "e", SP, "p", "r", "e", CCEDILLA, "o", SP,
     "m", "a", "i", "o", "r", SP, "q", "u", "e", SP, "1", "0", "0", "0", SP,
     "e", SP, "p", "r", "o", "d", "u", "t", "o", SP, "n", ATILDE, "o", SP,
     EACUTE, SP, "1", "2", "2", "3", "3" >>

\* The names of the three built-in fields.
Produto == << "p", "r", "o", "d", "u", "t", "o" >>
Categoria == << "c", "a", "t", "e", "g", "o", "r", "i", "a" >>
Preco == << "p", "r", "e", CCEDILLA, "o" >>

FieldNames == {Produto, Categoria, Preco}

\* The customTokens of the module-level tokenizer, each regex as the set of
\* characters it tests true on.
BuiltinTokens ==
  << {"p", "r", "o", "d", "u", "t"},
     {"c", "a", "t", "e", "g", "i", "o", "r"},
     {"p", "r", "e", CCEDILLA, "o"} >>

\* The texts given to the module-level tokenizer: what a user types on the
\* way to a documented query or field name, that is, each of their prefixes.
TypedInputs ==
  UNION { {SubSeq(text, 1, n) : n \in 0..Len(text)} : text \in {Query1, Query2} \cup FieldNames }

\* The matcher lists a Tokenizer is constructed with.  The first has a later
\* matcher accepting a longer run than the first one, the second has a digit
\* in its first class and accepts the tab, the third has no matcher at all.
MatcherLists ==
  { << {"a"}, {"a", "b"} >>,
    << {"a", "1"}, {"b", TAB} >>,
    << >> }

----------------------------------------------------------------------------
(* TOKENS *)

TOKENS_EOF == "eof"
TOKENS_IDENT == "ident"
TOKENS_NUMBER == "number"
TOKENS_STRING == "string"
TOKENS_PARAM == "param"

NoError == "none"
InvalidToken == "Invalid token"

\* input[i] past the end of a JavaScript string
Undefined == "undefined"

\* null
Null == "null"

Token(type, value) == [type |-> type, value |-> value]

----------------------------------------------------------------------------
(* Tokenizer *)

isEOF(inp, p) == p >= Len(inp)

peek(inp, p) == IF p < Len(inp) THEN inp[p + 1] ELSE Undefined

\* this.input[this.pos++]: the cursor moves even when there is nothing to read
consume(inp, p) == [char |-> peek(inp, p), pos |-> p + 1]

\* Mutant: each consumed character is put in front of the result.
RECURSIVE consumeWhileLoop_prepends(_, _, _, _)
consumeWhileLoop_prepends(inp, p, class, acc) ==
  IF ~isEOF(inp, p) /\ peek(inp, p) \in class
  THEN LET c == consume(inp, p)
       IN  consumeWhileLoop_prepends(inp, c.pos, class, <<c.char>> \o acc)
  ELSE [result |-> acc, pos |-> p]

consumeWhile_prepends(inp, p, class) == consumeWhileLoop_prepends(inp, p, class, <<>>)

\* The while loop of consumeWhile, with the result built so far.  The
\* predicate is given as the set of characters it accepts.
RECURSIVE consumeWhileLoop(_, _, _, _)
consumeWhileLoop(inp, p, class, acc) ==
  IF ~isEOF(inp, p) /\ peek(inp, p) \in class
  THEN LET c == consume(inp, p)
       IN  consumeWhileLoop(inp, c.pos, class, Append(acc, c.char))
  ELSE [result |-> acc, pos |-> p]

\* let result = ''; while (...) result += this.consume(); return result
consumeWhile(inp, p, class) == consumeWhileLoop(inp, p, class, <<>>)

\* Mutant: every whitespace character is skipped, as /\s/ would.
consumeWhitespace_anyWhitespace(inp, p) == consumeWhile(inp, p, {SP, TAB})

consumeWhitespace(inp, p) == consumeWhile(inp, p, {SP})

\* Mutant: the closing quote is left for the next token.
consumeString_leavesClosingQuote(inp, p) ==
  LET open  == consume(inp, p)
      value == consumeWhile(inp, open.pos, STRING \ {QUOTE})
  IN  [result |-> value.result, pos |-> value.pos]

consumeString(inp, p) ==
  LET open  == consume(inp, p)
      value == consumeWhile(inp, open.pos, STRING \ {QUOTE})
      close == consume(inp, value.pos)
  IN  [result |-> value.result, pos |-> close.pos]

\* Mutant: the decimal point is consumed but left out of the text.
consumeNumber_dropsPoint(inp, p) ==
  LET value == consumeWhile(inp, p, Digits)
  IN  IF peek(inp, value.pos) = DOT
      THEN LET dot  == consume(inp, value.pos)
               frac == consumeWhile(inp, dot.pos, Digits)
           IN  [result |-> value.result \o frac.result, pos |-> frac.pos]
      ELSE value

\* Mutant: digits and points are consumed in one run, as /[\d.]/ would.
consumeNumber_anyPoints(inp, p) == consumeWhile(inp, p, Digits \cup {DOT})

consumeNumber(inp, p) ==
  LET value == consumeWhile(inp, p, Digits)
  IN  IF peek(inp, value.pos) = DOT
      THEN LET dot  == consume(inp, value.pos)
               frac == consumeWhile(inp, dot.pos, Digits)
           IN  [result |-> value.result \o <<DOT>> \o frac.result, pos |-> frac.pos]
      ELSE value

\* The for loop over this.customTokens, from matcher i on.
RECURSIVE consumeCustomTokenFrom(_, _, _, _)
consumeCustomTokenFrom(inp, p, toks, i) ==
  IF i > Len(toks)
  THEN [result |-> <<>>, pos |-> p]
  ELSE LET match == consumeWhile(inp, p, toks[i])
       IN  IF match.result # <<>>
           THEN match
           ELSE consumeCustomTokenFrom(inp, match.pos, toks, i + 1)

\* Mutant: the matcher with the longest match wins, not the first.
consumeCustomToken_longest(inp, p, toks) ==
  LET matches == {consumeWhile(inp, p, toks[i]) : i \in 1..Len(toks)}
  IN  IF matches = {}
      THEN [result |-> <<>>, pos |-> p]
      ELSE CHOOSE m \in matches : \A n \in matches : Len(m.result) >= Len(n.result)

consumeCustomToken(inp, p, toks) == consumeCustomTokenFrom(inp, p, toks, 1)

\* The tokenize* methods return [error, token, pos].
tokenizeString(inp, p) ==
  LET s == consumeString(inp, p)
  IN  [error |-> NoError, token |-> Token(TOKENS_STRING, s.result), pos |-> s.pos]

tokenizeNumber(inp, p) ==
  LET n == consumeNumber(inp, p)
  IN  [error |-> NoError, token |-> Token(TOKENS_NUMBER, n.result), pos |-> n.pos]

\* Mutant: the token takes the type of the matcher, which is PARAM for each
\* built-in one.
tokenizeCustomToken_matcherType(inp, p, toks) ==
  LET value == consumeCustomToken(inp, p, toks)
  IN  IF value.result = <<>>
      THEN [error |-> InvalidToken, token |-> Token(TOKENS_PARAM, <<>>), pos |-> value.pos]
      ELSE [error |-> NoError, token |-> Token(TOKENS_PARAM, value.result), pos |-> value.pos]

\* Mutant: the character no matcher accepts is skipped and an Identifier with
\* an empty text is returned for it.
tokenizeCustomToken_emptyIdentifier(inp, p, toks) ==
  LET value == consumeCustomToken(inp, p, toks)
  IN  IF value.result = <<>>
      THEN [error |-> NoError, token |-> Token(TOKENS_IDENT, <<>>),
            pos |-> consume(inp, value.pos).pos]
      ELSE [error |-> NoError, token |-> Token(TOKENS_IDENT, value.result), pos |-> value.pos]

\* Mutant: the character no matcher accepts is consumed before the throw.
tokenizeCustomToken_skipsBadChar(inp, p, toks) ==
  LET value == consumeCustomToken(inp, p, toks)
  IN  IF value.result = <<>>
      THEN [error |-> InvalidToken, token |-> Token(TOKENS_IDENT, <<>>),
            pos |-> consume(inp, value.pos).pos]
      ELSE [error |-> NoError, token |-> Token(TOKENS_IDENT, value.result), pos |-> value.pos]

tokenizeCustomToken(inp, p, toks) ==
  LET value == consumeCustomToken(inp, p, toks)
  IN  IF value.result = <<>>
      THEN [error |-> InvalidToken, token |-> Token(TOKENS_IDENT, <<>>), pos |-> value.pos]
      ELSE [error |-> NoError, token |-> Token(TOKENS_IDENT, value.result), pos |-> value.pos]

\* Mutant: the EOF token is built from a consumed character.
tokenizeIt_consumesAtEOF(inp, p, toks) ==
  LET ws == consumeWhitespace(inp, p)
      at == ws.pos
      r  == IF isEOF(inp, at)
            THEN [error |-> NoError, token |-> Token(TOKENS_EOF, <<>>),
                  pos |-> consume(inp, at).pos]
            ELSE IF peek(inp, at) = QUOTE
            THEN tokenizeString(inp, at)
            ELSE IF peek(inp, at) \in Digits
            THEN tokenizeNumber(inp, at)
            ELSE tokenizeCustomToken(inp, at, toks)
  IN  [error |-> r.error, token |-> r.token, pos |-> r.pos,
       skipped |-> ws.result, at |-> at]

\* One run of tokenizeIt from p: [error, token, pos], with the run of spaces
\* it skipped and the offset at which it dispatched.
tokenizeIt(inp, p, toks) ==
  LET ws == consumeWhitespace(inp, p)
      at == ws.pos
      r  == IF isEOF(inp, at)
            THEN [error |-> NoError, token |-> Token(TOKENS_EOF, <<>>), pos |-> at]
            ELSE IF peek(inp, at) = QUOTE
            THEN tokenizeString(inp, at)
            ELSE IF peek(inp, at) \in Digits
            THEN tokenizeNumber(inp, at)
            ELSE tokenizeCustomToken(inp, at, toks)
  IN  [error |-> r.error, token |-> r.token, pos |-> r.pos,
       skipped |-> ws.result, at |-> at]

\* Mutant: the throw is caught and the tokens pushed so far are returned.
RECURSIVE tokenizeLoop_keepsTokens(_, _, _, _, _)
tokenizeLoop_keepsTokens(inp, p, toks, tokens, runs) ==
  LET t == tokenizeIt(inp, p, toks)
  IN  IF t.error # NoError
      THEN [error |-> t.error, tokens |-> tokens, pos |-> t.pos, runs |-> Append(runs, t)]
      ELSE IF t.token.type = TOKENS_EOF
      THEN [error |-> NoError, tokens |-> tokens, pos |-> t.pos, runs |-> Append(runs, t)]
      ELSE tokenizeLoop_keepsTokens(inp, t.pos, toks, Append(tokens, t.token), Append(runs, t))

\* Mutant: the token is pushed before it is tested, so the EOF token is returned too.
RECURSIVE tokenizeLoop_pushesEOF(_, _, _, _, _)
tokenizeLoop_pushesEOF(inp, p, toks, tokens, runs) ==
  LET t == tokenizeIt(inp, p, toks)
  IN  IF t.error # NoError
      THEN [error |-> t.error, tokens |-> <<>>, pos |-> t.pos, runs |-> Append(runs, t)]
      ELSE IF t.token.type = TOKENS_EOF
      THEN [error |-> NoError, tokens |-> Append(tokens, t.token), pos |-> t.pos,
            runs |-> Append(runs, t)]
      ELSE tokenizeLoop_pushesEOF(inp, t.pos, toks, Append(tokens, t.token), Append(runs, t))

\* The loop of tokenize, with the tokens pushed so far and the tokenizeIt runs
\* made so far.  A throw leaves the method without its local tokens array.
RECURSIVE tokenizeLoop(_, _, _, _, _)
tokenizeLoop(inp, p, toks, tokens, runs) ==
  LET t == tokenizeIt(inp, p, toks)
  IN  IF t.error # NoError
      THEN [error |-> t.error, tokens |-> <<>>, pos |-> t.pos, runs |-> Append(runs, t)]
      ELSE IF t.token.type = TOKENS_EOF
      THEN [error |-> NoError, tokens |-> tokens, pos |-> t.pos, runs |-> Append(runs, t)]
      ELSE tokenizeLoop(inp, t.pos, toks, Append(tokens, t.token), Append(runs, t))

tokenize(inp, p, toks) == tokenizeLoop(inp, p, toks, <<>>, <<>>)

----------------------------------------------------------------------------
(* Observation of the calls made *)

\* What a sequence of tokenizeIt runs read: each skipped run of spaces followed
\* by the text of the token the run emitted, if it emitted one.
RECURSIVE TextOf(_)
TextOf(runs) ==
  IF runs = <<>> THEN <<>>
  ELSE LET t == Head(runs)
       IN  t.skipped
           \o (IF t.error = NoError THEN t.token.value ELSE <<>>)
           \o TextOf(Tail(runs))

StringsIn(runs) ==
  IF \E i \in 1..Len(runs) : runs[i].error = NoError /\ runs[i].token.type = TOKENS_STRING
  THEN 1 ELSE 0

Max(a, b) == IF a >= b THEN a ELSE b

\* The arguments reset is called with: the edits a caller makes to the text it
\* holds (retype it, clear it, drop its last character, add one character).
\* Every string of at most MaxLen characters is reached by some chain of them.
ResetInputs(cur) ==
  {<<>>, cur}
    \cup (IF cur = <<>> THEN {} ELSE {SubSeq(cur, 1, Len(cur) - 1)})
    \cup (IF Len(cur) < MaxLen THEN {Append(cur, c) : c \in Chars} ELSE {})

----------------------------------------------------------------------------
(* The state machine *)

Init ==
  /\ input = <<>>
  /\ pos = 0
  /\ customTokens \in MatcherLists
  /\ lastCall = "new"
  /\ result = [error |-> NoError, tokens |-> <<>>]
  /\ prevPos = 0
  /\ trace = <<>>
  /\ scanned = <<>>
  /\ strings = 0
  /\ eofs = 0
  /\ fails = 0
  /\ appTokens = <<>>
  /\ appError = Null
  /\ prevError = Null

\* Mutant: the input is replaced and the cursor stays where it was.
Reset_keepsPosition(x) ==
  /\ input' = x
  /\ pos' = pos
  /\ lastCall' = "reset"
  /\ result' = [error |-> NoError, tokens |-> <<>>]
  /\ prevPos' = pos
  /\ trace' = <<>>
  /\ scanned' = <<>>
  /\ strings' = 0
  /\ eofs' = 0
  /\ fails' = 0
  /\ UNCHANGED <<customTokens, appVars>>

\* setInput(x)
Reset(x) ==
  /\ input' = x
  /\ pos' = 0
  /\ lastCall' = "reset"
  /\ result' = [error |-> NoError, tokens |-> <<>>]
  /\ prevPos' = pos
  /\ trace' = <<>>
  /\ scanned' = <<>>
  /\ strings' = 0
  /\ eofs' = 0
  /\ fails' = 0
  /\ UNCHANGED <<customTokens, appVars>>

\* tokenizeIt()
NextToken ==
  LET t == tokenizeIt(input, pos, customTokens)
  IN  /\ pos' = t.pos
      /\ lastCall' = "nextToken"
      /\ result' = [error |-> t.error,
                    tokens |-> IF t.error = NoError THEN <<t.token>> ELSE <<>>]
      /\ prevPos' = pos
      /\ trace' = <<t>>
      /\ scanned' = scanned \o TextOf(<<t>>)
      /\ strings' = Max(strings, StringsIn(<<t>>))
      /\ eofs' = IF t.error = NoError /\ t.token.type = TOKENS_EOF /\ eofs < 2
                 THEN eofs + 1 ELSE eofs
      /\ fails' = IF t.error # NoError /\ fails < 2 THEN fails + 1 ELSE fails
      /\ UNCHANGED <<input, customTokens, appVars>>

\* tokenize()
TokenizeAll ==
  LET r == tokenize(input, pos, customTokens)
  IN  /\ pos' = r.pos
      /\ lastCall' = "tokenizeAll"
      /\ result' = [error |-> r.error, tokens |-> r.tokens]
      /\ prevPos' = pos
      /\ trace' = r.runs
      /\ scanned' = scanned \o TextOf(r.runs)
      /\ strings' = Max(strings, StringsIn(r.runs))
      /\ fails' = IF r.error # NoError /\ fails < 2 THEN fails + 1 ELSE fails
      /\ UNCHANGED <<input, customTokens, eofs, appVars>>

Next ==
  \/ \E x \in ResetInputs(input) : Reset(x)
  \/ NextToken
  \/ TokenizeAll

Spec == Init /\ [][Next]_vars

----------------------------------------------------------------------------
(* The module-level tokenizer *)

\* new Tokenizer([...]) with the three built-in custom tokens
InitBuiltin ==
  /\ input = <<>>
  /\ pos = 0
  /\ customTokens = BuiltinTokens
  /\ lastCall = "new"
  /\ result = [error |-> NoError, tokens |-> <<>>]
  /\ prevPos = 0
  /\ trace = <<>>
  /\ scanned = <<>>
  /\ strings = 0
  /\ eofs = 0
  /\ fails = 0
  /\ appTokens = <<>>
  /\ appError = Null
  /\ prevError = Null

NextBuiltin ==
  \/ \E x \in TypedInputs : Reset(x)
  \/ NextToken
  \/ TokenizeAll

SpecBuiltin == InitBuiltin /\ [][NextBuiltin]_vars

----------------------------------------------------------------------------
(* App *)

\* The characters of a token type, as the template literal writes them.
TypeText(type) ==
  CASE type = TOKENS_IDENT  -> <<"i", "d", "e", "n", "t">>
    [] type = TOKENS_NUMBER -> <<"n", "u", "m", "b", "e", "r">>
    [] type = TOKENS_STRING -> <<"s", "t", "r", "i", "n", "g">>
    [] type = TOKENS_EOF    -> <<"e", "o", "f">>
    [] type = TOKENS_PARAM  -> <<"p", "a", "r", "a", "m">>

\* `${token.type}: ${token.value}`
Render(token) == TypeText(token.type) \o <<":", SP>> \o token.value

\* Mutant: the catch branch sets the error and leaves the tokens state alone.
InputChange_keepsTokens(x) ==
  /\ IF lastCall = "new" THEN x = <<>> ELSE x # input
  /\ \E r \in {tokenize(x, 0, customTokens)} :
         /\ input' = x
         /\ pos' = r.pos
         /\ lastCall' = "tokenizeAll"
         /\ result' = [error |-> r.error, tokens |-> r.tokens]
         /\ prevPos' = 0
         /\ trace' = r.runs
         /\ scanned' = TextOf(r.runs)
         /\ strings' = StringsIn(r.runs)
         /\ eofs' = 0
         /\ fails' = IF r.error # NoError THEN 1 ELSE 0
         /\ appTokens' = IF r.error = NoError
                         THEN [i \in 1..Len(r.tokens) |-> Render(r.tokens[i])]
                         ELSE appTokens
         /\ appError' = IF r.error = NoError THEN Null ELSE r.error
         /\ prevError' = appError
         /\ UNCHANGED customTokens

\* The effect of App for the text x: it runs when the component is mounted,
\* with the empty text, and after each change of the text.  It calls
\* tokenizer.setInput(x) and tokenizer.tokenize(), then sets the tokens and
\* error states, in the try branch or in the catch branch.
InputChange(x) ==
  /\ IF lastCall = "new" THEN x = <<>> ELSE x # input
  /\ \E r \in {tokenize(x, 0, customTokens)} :
         /\ input' = x
         /\ pos' = r.pos
         /\ lastCall' = "tokenizeAll"
         /\ result' = [error |-> r.error, tokens |-> r.tokens]
         /\ prevPos' = 0
         /\ trace' = r.runs
         /\ scanned' = TextOf(r.runs)
         /\ strings' = StringsIn(r.runs)
         /\ eofs' = 0
         /\ fails' = IF r.error # NoError THEN 1 ELSE 0
         /\ appTokens' = IF r.error = NoError
                         THEN [i \in 1..Len(r.tokens) |-> Render(r.tokens[i])]
                         ELSE <<>>
         /\ appError' = IF r.error = NoError THEN Null ELSE r.error
         /\ prevError' = appError
         /\ UNCHANGED customTokens

NextApp == \E x \in TypedInputs : InputChange(x)

SpecApp == InitBuiltin /\ [][NextApp]_vars

----------------------------------------------------------------------------
(* Types *)

TypeOK ==
  /\ input \in Seq(Chars) /\ Len(input) <= MaxLen
  /\ pos \in Nat
  /\ customTokens \in MatcherLists
  /\ lastCall \in {"new", "reset", "nextToken", "tokenizeAll"}
  /\ result.error \in {NoError, InvalidToken}
  /\ strings \in 0..1
  /\ eofs \in 0..2
  /\ fails \in 0..2
  /\ appTokens = <<>>
  /\ appError = Null
  /\ prevError = Null

----------------------------------------------------------------------------
(* What the claims speak of, stated on the input alone *)

\* The length of the maximal run of characters of class that starts at offset p.
RunLen(inp, p, class) ==
  IF p >= Len(inp) THEN 0
  ELSE CHOOSE n \in 0..(Len(inp) - p) :
         /\ \A k \in 1..n : inp[p + k] \in class
         /\ (p + n = Len(inp) \/ inp[p + n + 1] \notin class)

\* The n characters of inp from offset p on.
Slice(inp, p, n) == SubSeq(inp, p + 1, p + n)

\* inp[0 .. p), as String.prototype.slice gives it.
Prefix(inp, p) == SubSeq(inp, 1, IF p <= Len(inp) THEN p ELSE Len(inp))

\* No rule takes character c: it is no quote, no digit, and in no matcher's class.
Unrecognized(c, toks) ==
  /\ c # QUOTE
  /\ c \notin Digits
  /\ \A i \in 1..Len(toks) : c \notin toks[i]

\* The first matcher, in registration order, whose class holds c.
FirstAccepting(c, toks) ==
  CHOOSE i \in 1..Len(toks) : c \in toks[i] /\ \A j \in 1..(i - 1) : c \notin toks[j]

\* The offset of the first character that is not a space, from the offset the
\* last call started at: where a nextToken call dispatches.
DispatchAt == prevPos + RunLen(input, prevPos, {SP})

AtChar == DispatchAt < Len(input)
DispatchChar == input[DispatchAt + 1]

Returned(token) == result = [error |-> NoError, tokens |-> <<token>>]
Raised == result.error = InvalidToken

----------------------------------------------------------------------------
(* C1 *)

\* Some tokenizeIt run of the last call dispatched on an unrecognized character.
ReachedUnrecognized ==
  \E i \in 1..Len(trace) :
    /\ trace[i].at < Len(input)
    /\ input[trace[i].at + 1] # SP
    /\ Unrecognized(input[trace[i].at + 1], customTokens)

\* C1: when the scan of a tokenizeAll call reaches, after the spaces, a
\* character that is no quote, no digit and accepted by no matcher, the call
\* raises "Invalid token" and returns no token, whatever it had collected.
C1_FailFast ==
  (lastCall = "tokenizeAll" /\ ReachedUnrecognized)
    => (result.error = InvalidToken /\ result.tokens = <<>>)

\* A tokenizeAll call that had produced two tokens before it met the character.
C1_Witness ==
  /\ lastCall = "tokenizeAll"
  /\ ReachedUnrecognized
  /\ Len(trace) >= 3
  /\ trace[1].token.value # <<>>

----------------------------------------------------------------------------
(* C2 *)

\* C2: position is within [0, length(input)] in every reachable state.
C2_PositionInRange == 0 <= pos /\ pos <= Len(input)

----------------------------------------------------------------------------
(* C3 *)

\* C3 as stated: the emitted token texts and the skipped runs of spaces,
\* concatenated in scan order, are the scanned prefix input[0 .. position) of
\* the input, for every kind of token.  It is stated where position is within
\* the input, so that input[0 .. position) is a prefix of it.
C3_ConcatenationIsPrefix ==
  pos <= Len(input) => scanned = SubSeq(input, 1, pos)

\* C3, amended: the concatenation is the scanned prefix input[0 .. position)
\* as long as only Identifier and Number tokens have been emitted since the
\* last reset; once a String token has been emitted it differs from the
\* prefix, the quotes consumed around the text being left out of it.
C3_ConcatenationWithoutStrings ==
  /\ strings = 0 => (pos <= Len(input) /\ scanned = SubSeq(input, 1, pos))
  /\ strings = 1 => (Len(scanned) < Len(Prefix(input, pos)))

\* An Identifier, a run of spaces and a Number scanned by nextToken calls.
C3_Witness ==
  /\ lastCall = "nextToken"
  /\ strings = 0
  /\ Returned(Token(TOKENS_NUMBER, <<"1">>))
  /\ scanned = <<"a", SP, "1">>

----------------------------------------------------------------------------
(* C4 *)

\* C4: on a character that is neither quote nor digit and that some matcher
\* accepts, nextToken returns the Identifier whose text is the maximal run, from
\* the cursor, of characters of the class of the first matcher accepting that
\* character, and the cursor ends behind it; an input made only of characters
\* of the first matcher's class, not starting as a number or a string, is one
\* Identifier token holding the whole input.
C4_FirstMatcherWins ==
  /\ (/\ lastCall = "nextToken"
      /\ AtChar
      /\ DispatchChar \notin (Digits \cup {QUOTE})
      /\ ~Unrecognized(DispatchChar, customTokens))
     => LET class == customTokens[FirstAccepting(DispatchChar, customTokens)]
            n     == RunLen(input, DispatchAt, class)
        IN  /\ Returned(Token(TOKENS_IDENT, Slice(input, DispatchAt, n)))
            /\ pos = DispatchAt + n
  /\ (/\ lastCall = "tokenizeAll"
      /\ prevPos = 0
      /\ input # <<>>
      /\ customTokens # <<>>
      /\ \A k \in 1..Len(input) : input[k] \in customTokens[1]
      /\ input[1] \notin (Digits \cup {QUOTE}))
     => result = [error |-> NoError, tokens |-> <<Token(TOKENS_IDENT, input)>>]

\* The first accepting matcher won although a later one accepts a longer run.
C4_Witness ==
  /\ lastCall = "nextToken"
  /\ AtChar
  /\ result.error = NoError
  /\ result.tokens[1].type = TOKENS_IDENT
  /\ \E j \in 1..Len(customTokens) :
       RunLen(input, DispatchAt, customTokens[j]) > Len(result.tokens[1].value)

----------------------------------------------------------------------------
(* C5 *)

EOFToken == Token(TOKENS_EOF, <<>>)

\* C5: once a nextToken call has returned EOF, every later nextToken call
\* before a reset returns EOF and leaves position where it was; and a
\* tokenizeAll call that follows a tokenizeAll call that returned without error
\* returns the empty sequence.
C5_EOFAbsorbing ==
  [][ /\ (eofs >= 1 /\ lastCall' = "nextToken")
         => (result' = [error |-> NoError, tokens |-> <<EOFToken>>] /\ pos' = pos)
      /\ (lastCall = "tokenizeAll" /\ result.error = NoError /\ lastCall' = "tokenizeAll")
         => result' = [error |-> NoError, tokens |-> <<>>]
    ]_vars

\* A second EOF from nextToken on an input that has tokens.
C5_Witness ==
  /\ eofs = 2
  /\ lastCall = "nextToken"
  /\ Returned(EOFToken)
  /\ scanned # <<>>

----------------------------------------------------------------------------
(* C6 *)

\* The offset of the first quote behind offset p, or the length of the
\* input when there is none.
NextQuote(inp, p) == p + 1 + RunLen(inp, p + 1, Chars \ {QUOTE})

Unterminated(inp, p) == NextQuote(inp, p) >= Len(inp)

\* C6: on a quote, nextToken returns, without error, the String token whose
\* text is the characters strictly between that quote and the next one, with
\* the cursor behind the closing quote; without a closing quote the text is
\* everything behind the opening quote, and the nextToken call that follows
\* returns EOF.
C6_StringToken ==
  /\ []((lastCall = "nextToken" /\ AtChar /\ DispatchChar = QUOTE)
          => LET close == NextQuote(input, DispatchAt)
             IN  /\ Returned(Token(TOKENS_STRING,
                                   Slice(input, DispatchAt + 1, close - DispatchAt - 1)))
                 /\ ~Unterminated(input, DispatchAt) => pos = close + 1
                 /\ Unterminated(input, DispatchAt)
                      => Returned(Token(TOKENS_STRING,
                                        Slice(input, DispatchAt + 1,
                                              Len(input) - DispatchAt - 1))))
  /\ [][ (/\ lastCall = "nextToken" /\ AtChar /\ DispatchChar = QUOTE
          /\ Unterminated(input, DispatchAt)
          /\ lastCall' = "nextToken")
         => result' = [error |-> NoError, tokens |-> <<EOFToken>>]
       ]_vars

\* EOF returned behind a String token that had text and no closing quote.
C6_Witness ==
  /\ lastCall = "nextToken"
  /\ Returned(EOFToken)
  /\ strings = 1
  /\ pos > Len(input)
  /\ scanned # <<>>

----------------------------------------------------------------------------
(* C7 *)

Count(seq, c) == Cardinality({k \in 1..Len(seq) : seq[k] = c})

\* C7: on a digit, nextToken returns the Number token whose text is the
\* maximal run of digits at the cursor, followed by the point and the maximal
\* run of digits behind it exactly when a point follows the first run; the
\* cursor ends behind the text, which holds at most one point.
C7_NumberToken ==
  (lastCall = "nextToken" /\ AtChar /\ DispatchChar \in Digits)
    => LET n1   == RunLen(input, DispatchAt, Digits)
           dot  == DispatchAt + n1 < Len(input) /\ input[DispatchAt + n1 + 1] = DOT
           n2   == RunLen(input, DispatchAt + n1 + 1, Digits)
           text == IF dot THEN Slice(input, DispatchAt, n1 + 1 + n2)
                          ELSE Slice(input, DispatchAt, n1)
       IN  /\ Returned(Token(TOKENS_NUMBER, text))
           /\ pos = DispatchAt + Len(text)
           /\ Count(text, DOT) <= 1

\* A Number with a fraction, stopped in front of a second point.
C7_Witness ==
  /\ lastCall = "nextToken"
  /\ Returned(Token(TOKENS_NUMBER, <<"1", DOT, "1">>))
  /\ pos < Len(input)
  /\ input[pos + 1] = DOT

----------------------------------------------------------------------------
(* C8 *)

\* C8 as stated: a nextToken call that raises InvalidToken leaves position
\* where it was when the call started, also when spaces precede the character.
C8_FailureLeavesPosition ==
  (lastCall = "nextToken" /\ Raised) => pos = prevPos

\* C8, amended: a nextToken call that raises InvalidToken produces no token
\* and leaves position on the unrecognized character: behind the spaces the
\* call skipped, and where the call started when there were none.
C8_FailureStopsAtCharacter ==
  (lastCall = "nextToken" /\ Raised)
    => /\ result.tokens = <<>>
       /\ pos = DispatchAt
       /\ pos < Len(input)
       /\ Unrecognized(input[pos + 1], customTokens)

\* A failed call that had skipped spaces.
C8_Witness ==
  /\ lastCall = "nextToken"
  /\ Raised
  /\ pos > prevPos

----------------------------------------------------------------------------
(* C9 *)

\* C9: tokenizeAll on an input of spaces alone returns the empty sequence; no
\* Identifier or Number text holds a space; and a tab is not skipped: a
\* nextToken call whose first character behind the spaces is a tab returns an
\* Identifier starting with the tab when a matcher accepts the tab, and raises
\* InvalidToken in front of it otherwise.
C9_OnlySpacesSkipped ==
  /\ (lastCall = "tokenizeAll" /\ \A k \in 1..Len(input) : input[k] = SP)
       => result = [error |-> NoError, tokens |-> <<>>]
  /\ \A i \in 1..Len(result.tokens) :
       result.tokens[i].type \in {TOKENS_IDENT, TOKENS_NUMBER}
         => Count(result.tokens[i].value, SP) = 0
  /\ (lastCall = "nextToken" /\ AtChar /\ DispatchChar = TAB)
       => IF Unrecognized(TAB, customTokens)
          THEN Raised /\ pos = DispatchAt
          ELSE /\ result.error = NoError
               /\ result.tokens[1].type = TOKENS_IDENT
               /\ Head(result.tokens[1].value) = TAB

\* Spaces skipped, then a tab that no matcher accepts.
C9_Witness ==
  /\ lastCall = "nextToken"
  /\ AtChar
  /\ DispatchChar = TAB
  /\ DispatchAt > prevPos
  /\ Raised

----------------------------------------------------------------------------
(* C10 *)

\* The least offset from lo on at which text occurs in inp, or -1.
Occurrence(text, inp, lo) ==
  LET at == {s \in lo..(Len(inp) - Len(text)) : Slice(inp, s, Len(text)) = text}
  IN  IF at = {} THEN -1 ELSE CHOOSE s \in at : \A r \in at : s <= r

\* The texts occur in inp in order, from offset lo on, at strictly increasing
\* offsets and without overlap.  Taking each text at its leftmost possible
\* offset leaves the most room for the texts that follow.
RECURSIVE OccurInOrder(_, _, _)
OccurInOrder(texts, inp, lo) ==
  IF texts = <<>> THEN TRUE
  ELSE LET s == Occurrence(Head(texts), inp, lo)
       IN  /\ s >= 0
           /\ OccurInOrder(Tail(texts), inp, Max(s + Len(Head(texts)), s + 1))

\* C10: the texts of the tokens a tokenizeAll call returns without error occur
\* in the input, in order, as contiguous substrings that do not overlap, at
\* strictly increasing offsets.
C10_TextsOccurInOrder ==
  (lastCall = "tokenizeAll" /\ result.error = NoError)
    => OccurInOrder([i \in 1..Len(result.tokens) |-> result.tokens[i].value], input, 0)

\* reset and tokenizeAll on an input of three tokens, one of them a String.
C10_Witness ==
  /\ lastCall = "tokenizeAll"
  /\ prevPos = 0
  /\ result.error = NoError
  /\ Len(result.tokens) >= 3
  /\ strings = 1

----------------------------------------------------------------------------
(* C11 *)

\* What reset(x) followed by tokenizeAll returns on a Tokenizer that was just
\* constructed with the matchers toks: its cursor is at 0 when tokenize starts.
FreshOutcome(x, toks) ==
  LET r == tokenize(x, 0, toks)
  IN  [error |-> r.error, tokens |-> r.tokens]

\* C11: reset raises nothing, replaces the input by its argument and puts the
\* cursor at 0; the tokenizeAll call that follows a reset returns (or raises)
\* what it does on a Tokenizer just constructed with the same matchers,
\* whatever calls were made before the reset.
C11_ResetErasesHistory ==
  [][ /\ lastCall' = "reset"
         => (pos' = 0 /\ result'.error = NoError /\ input' \in ResetInputs(input))
      /\ (lastCall = "reset" /\ lastCall' = "tokenizeAll")
         => (input' = input /\ result' = FreshOutcome(input, customTokens))
    ]_vars

\* A reset made while the cursor of the scan before it was behind the end of
\* the new input.
C11_Witness ==
  /\ lastCall = "reset"
  /\ input # <<>>
  /\ prevPos > Len(input)
  /\ pos = 0

----------------------------------------------------------------------------
(* C12 *)

\* The tokenizeIt runs of a caller that calls nextToken from offset p until a
\* call returns EOF or raises, that call included.
RECURSIVE NextTokenSeries(_, _, _)
NextTokenSeries(inp, p, toks) ==
  LET t == tokenizeIt(inp, p, toks)
  IN  IF t.error # NoError \/ t.token.type = TOKENS_EOF
      THEN <<t>>
      ELSE <<t>> \o NextTokenSeries(inp, t.pos, toks)

\* C12: tokenizeAll returns the tokens of the series of nextToken calls made
\* from the position it starts at, up to and without the first EOF, raises
\* when a call of the series raises, and leaves the cursor where the series
\* leaves it; started behind some nextToken calls it returns the rest.
C12_TokenizeAllIsNextTokenSeries ==
  lastCall = "tokenizeAll"
    => LET series == NextTokenSeries(input, prevPos, customTokens)
           last   == series[Len(series)]
       IN  /\ pos = last.pos
           /\ result.error = last.error
           /\ result.tokens = IF last.error # NoError THEN <<>>
                              ELSE [i \in 1..(Len(series) - 1) |-> series[i].token]

\* A tokenizeAll call started behind the first token, returning the rest.
C12_Witness ==
  /\ lastCall = "tokenizeAll"
  /\ prevPos > 0
  /\ result.error = NoError
  /\ result.tokens # <<>>
  /\ Len(scanned) > Len(TextOf(trace))

----------------------------------------------------------------------------
(* C13 *)

Texts(toks) == [i \in 1..Len(toks) |-> toks[i].value]

\* The texts the tokenization example gives for the first query: the
\* parameter, the operator, a value, the comma and a value.
Query1Texts ==
  <<
     << "p", "r", "o", "d", "u", "t", "o" >>,
     << "e", "m" >>,
     << "1", "0", "2", "2", "3", "4" >>,
     << "," >>,
     << "1", "2", "2", "3", "3" >>
  >>

\* The texts the tokenization example gives for the second query, [0] to [18].
Query2Texts ==
  <<
     << "p", "r", "o", "d", "u", "t", "o" >>,
     << EACUTE >>,
     << "1", "0", "2", "2", "3", "4" >>,
     << "e" >>,
     << "c", "a", "t", "e", "g", "o", "r", "i", "a" >>,
     << "e", "m" >>,
     << "1", "2", "3", "4", "5" >>,
     << "," >>,
     << "1", "2", "3", "4" >>,
     << "," >>,
     << "1", "2", "3", "3" >>,
     << "e" >>,
     << "p", "r", "e", CCEDILLA, "o" >>,
     << "m", "a", "i", "o", "r", SP, "q", "u", "e" >>,
     << "1", "0", "0", "0" >>,
     << "e" >>,
     << "p", "r", "o", "d", "u", "t", "o" >>,
     << "n", ATILDE, "o", SP, EACUTE >>,
     << "1", "2", "2", "3", "3" >>
  >>

\* C13: with the built-in matchers, tokenizeAll on each documented query
\* returns without error the tokens of the tokenization example, in order.
C13_DocumentedQueriesTokenize ==
  /\ (lastCall = "tokenizeAll" /\ prevPos = 0 /\ input = Query1)
       => (result.error = NoError /\ Texts(result.tokens) = Query1Texts)
  /\ (lastCall = "tokenizeAll" /\ prevPos = 0 /\ input = Query2)
       => (result.error = NoError /\ Texts(result.tokens) = Query2Texts)

----------------------------------------------------------------------------
(* C16 *)

\* C16: with the built-in matchers in their order, tokenizeAll on each of the
\* three field names alone returns one Identifier token whose text is the name.
C16_FieldNamesAreOneIdentifier ==
  (lastCall = "tokenizeAll" /\ prevPos = 0 /\ input \in FieldNames)
    => result = [error |-> NoError, tokens |-> <<Token(TOKENS_IDENT, input)>>]

----------------------------------------------------------------------------
(* C14 *)

\* C14: every token nextToken returns is an Identifier, a Number, a String or
\* EOF, and tokenizeAll returns no EOF token; on a character that is neither a
\* quote nor a digit (a letter of an operator word, a point, a tab) nextToken
\* returns an Identifier when a matcher accepts the character and raises
\* InvalidToken otherwise.
C14_EmittedKinds ==
  /\ \A i \in 1..Len(result.tokens) :
       /\ result.tokens[i].type
            \in {TOKENS_IDENT, TOKENS_NUMBER, TOKENS_STRING, TOKENS_EOF}
       /\ lastCall = "tokenizeAll" => result.tokens[i].type # TOKENS_EOF
  /\ (lastCall = "nextToken" /\ AtChar /\ DispatchChar \notin (Digits \cup {QUOTE}))
       => IF Unrecognized(DispatchChar, customTokens)
          THEN Raised /\ result.tokens = <<>>
          ELSE result.error = NoError /\ result.tokens[1].type = TOKENS_IDENT

\* A tokenizeAll result with an Identifier, a Number and a String.
C14_Witness ==
  /\ lastCall = "tokenizeAll"
  /\ {result.tokens[i].type : i \in 1..Len(result.tokens)}
       = {TOKENS_IDENT, TOKENS_NUMBER, TOKENS_STRING}

----------------------------------------------------------------------------
(* C15 *)

\* C15: a nextToken call that returns a token other than EOF moves the cursor
\* forward by at least one character, and an Identifier has a text that is not
\* empty; a tokenizeAll call ends, having made at most length(input) + 1
\* nextToken calls, each but the last moving the cursor forward, and returns
\* at most length(input) tokens or raises InvalidToken.
C15_Progress ==
  /\ (lastCall = "nextToken" /\ result.error = NoError
        /\ result.tokens[1].type # TOKENS_EOF)
       => pos > prevPos
  /\ \A i \in 1..Len(result.tokens) :
       result.tokens[i].type = TOKENS_IDENT => result.tokens[i].value # <<>>
  /\ lastCall = "tokenizeAll"
       => /\ Len(trace) <= Len(input) + 1
          /\ \A i \in 1..(Len(trace) - 1) : trace[i].pos > trace[i].at
          /\ Len(result.tokens) <= Len(input)
          /\ result.error \in {NoError, InvalidToken}

\* A tokenizeAll call that returned as many tokens as the input has characters.
C15_Witness ==
  /\ lastCall = "tokenizeAll"
  /\ prevPos = 0
  /\ result.error = NoError
  /\ Len(result.tokens) = Len(input)
  /\ Len(input) = MaxLen

----------------------------------------------------------------------------
(* C17 *)

\* C17: after a call has raised InvalidToken the input is kept and the cursor
\* rests on the unrecognized character, and every nextToken or tokenizeAll
\* call made before a reset raises InvalidToken again, returns no token and
\* leaves the cursor there; a reset clears the failure.
C17_FailureIsSticky ==
  /\ [](fails >= 1 => (pos < Len(input) /\ Unrecognized(input[pos + 1], customTokens)))
  /\ [][ /\ (fails >= 1 /\ lastCall' \in {"nextToken", "tokenizeAll"})
            => /\ result' = [error |-> InvalidToken, tokens |-> <<>>]
               /\ pos' = pos
               /\ input' = input
         /\ lastCall' = "reset" => fails' = 0
       ]_vars

\* A failure, then a nextToken call that raised again at the same character.
C17_Witness ==
  /\ fails = 2
  /\ lastCall = "nextToken"
  /\ Raised
  /\ pos = prevPos
  /\ scanned # <<>>

----------------------------------------------------------------------------
(* C18 *)

\* C18: once App has handled a change of the input, it shows the tokens or
\* the error of the latest input and never both: the message "Invalid token"
\* and no token when tokenizing that input raises, and otherwise every token
\* of its tokenization as 'kind: text' and no error, also when the input
\* before it had failed on the shared tokenizer.
C18_DisplayReflectsLatestInput ==
  lastCall = "tokenizeAll"
    => LET latest == FreshOutcome(input, BuiltinTokens)
       IN  /\ ~(appTokens # <<>> /\ appError # Null)
           /\ latest.error # NoError
                => (appTokens = <<>> /\ appError = InvalidToken)
           /\ latest.error = NoError
                => /\ appError = Null
                   /\ Len(appTokens) = Len(latest.tokens)
                   /\ \A i \in 1..Len(appTokens) :
                        appTokens[i] = Render(latest.tokens[i])

\* Tokens shown for an input that follows an input that had failed.
C18_Witness ==
  /\ lastCall = "tokenizeAll"
  /\ prevError = InvalidToken
  /\ appError = Null
  /\ Len(appTokens) >= 2

====
